---- MODULE Spec2Model ----
(***************************************************************************)
(* Black Hole Raytracer (src/main.cc): the ray integrator traceRay, the    *)
(* BlackHole lensing / accretion-disk model and the frame renderer.        *)
(*                                                                         *)
(* Numbers.  The program computes in IEEE doubles.  The model computes in  *)
(* fixed point: a length, a mass, a time or a colour channel x is the      *)
(* integer x * Unit, a direction component the integer x * DirUnit, and    *)
(* every operation rounds its result to the nearest grid value, as the     *)
(* double operation rounds to the nearest double.  Comparisons are the     *)
(* code's comparisons on the rounded values.                               *)
(***************************************************************************)
EXTENDS Integers, Sequences, FiniteSets, TLC

VARIABLES
    bh,                   \* the BlackHole passed to traceRay / render / the call
    \* traceRay
    origin,               \* traceRay's argument origin
    argDirection,         \* traceRay's argument direction, as passed
    currentPosition,      \* traceRay local
    direction,            \* traceRay's by-value parameter direction, updated by lensing
    totalDistance,        \* traceRay local
    step,                 \* traceRay's loop counter
    distanceToBlackHole,  \* traceRay local, set at the top of each iteration
    stepSize,             \* traceRay local, set at the top of each iteration
    pc,                   \* the position inside traceRay
    result,               \* what traceRay returned: [kind, color]
    iterations,           \* history: loop bodies entered
    diskCalls,            \* history: calls of intersectsAccretionDisk
    lensCalls,            \* history: calls of applyGravitationalLensing
    lensRegime,           \* history: the branch the last lensing call took
    \* a single call of one of BlackHole's const methods
    call,                 \* the method and its arguments
    ret,                  \* what it returned
    \* render
    cam,                  \* the Camera passed to render
    w, h,                 \* render's arguments
    x, y, dx, dy,         \* render's loop counters
    pixelSum,             \* render local
    image,                \* render local: image[y][x], rows and columns from 0
    rpc,                  \* the position inside main / render
    scene,                \* which colours traceRay returns to render
    traceCalls,           \* history: calls of traceRay made by render
    file                  \* the integers written to the image file, per pixel

traceVars == <<origin, argDirection, currentPosition, direction, totalDistance, step,
               distanceToBlackHole, stepSize, pc, result, iterations, diskCalls,
               lensCalls, lensRegime>>
pureVars == <<call, ret>>
renderVars == <<cam, w, h, x, y, dx, dy, pixelSum, image, rpc, scene, traceCalls, file>>
vars == <<bh, traceVars, pureVars, renderVars>>

----------------------------------------------------------------------------
(* Fixed-point representation of double *)

Unit == 1000
DirUnit == 10000

Abs(a) == IF a < 0 THEN -a ELSE a
Min(a, b) == IF a < b THEN a ELSE b
Max(a, b) == IF a < b THEN b ELSE a

\* a / b rounded to the nearest integer (b # 0), halves away from zero
RDiv(a, b) ==
    LET n == Abs(a)
        d == Abs(b)
        q == (n \div d) + (IF 2 * (n % d) >= d THEN 1 ELSE 0)
    IN  IF (a < 0) = (b < 0) THEN q ELSE -q

\* int(x): truncation toward zero of a / b, b > 0
Trunc(a, b) == IF a >= 0 THEN a \div b ELSE -((-a) \div b)

\* Newton's iteration for the integer square root, from a guess above it
RECURSIVE SqrtIter(_, _)
SqrtIter(n, guess) ==
    LET better == (guess + n \div guess) \div 2
    IN  IF better >= guess THEN guess ELSE SqrtIter(n, better)

\* s or s + 1, whichever is nearer to the square root of n, s being its floor
SqrtRound(n, s) == IF n - s * s > s THEN s + 1 ELSE s

\* std::sqrt of a non-negative integer, rounded to the nearest integer
Sqrt(n) ==
    IF n = 0 THEN 0
    ELSE SqrtRound(n, SqrtIter(n, IF n < 46341 THEN n ELSE 46341))

----------------------------------------------------------------------------
(* Vec3 *)

ZeroVec == <<0, 0, 0>>
VAdd(a, b) == <<a[1] + b[1], a[2] + b[2], a[3] + b[3]>>
VSub(a, b) == <<a[1] - b[1], a[2] - b[2], a[3] - b[3]>>
\* v * (n / d)
VScale(v, n, d) == <<RDiv(v[1] * n, d), RDiv(v[2] * n, d), RDiv(v[3] * n, d)>>
\* the cross product of two directions, as a direction
Cross(a, b) ==
    <<RDiv(a[2] * b[3] - a[3] * b[2], DirUnit),
      RDiv(a[3] * b[1] - a[1] * b[3], DirUnit),
      RDiv(a[1] * b[2] - a[2] * b[1], DirUnit)>>

MaxSquarable == 26000

\* Vec3::length: a double keeps its relative precision at any magnitude; the
\* fixed-point square is taken at a coarser grid once it would leave the
\* integer range.
RECURSIVE Length(_)
Length(v) ==
    IF Max(Abs(v[1]), Max(Abs(v[2]), Abs(v[3]))) <= MaxSquarable
    THEN Sqrt(v[1] * v[1] + v[2] * v[2] + v[3] * v[3])
    ELSE 10 * Length(<<RDiv(v[1], 10), RDiv(v[2], 10), RDiv(v[3], 10)>>)

MaxScalable == 200000

\* Vec3::normalize: len > 1e-10 ? *this / len : Vec3(); the result is a direction.
\* A vector too long for the integer product v * DirUnit is first taken at a
\* coarser grid (its direction is the same).
RECURSIVE Normalize(_)
Normalize(v) ==
    IF Max(Abs(v[1]), Max(Abs(v[2]), Abs(v[3]))) > MaxScalable
    THEN Normalize(<<RDiv(v[1], 10), RDiv(v[2], 10), RDiv(v[3], 10)>>)
    ELSE LET len == Length(v)
         IN  IF len > 0 THEN VScale(v, DirUnit, len) ELSE ZeroVec

DistanceTo(a, b) == Length(VSub(a, b))

----------------------------------------------------------------------------
(* PhysicsConstants and RenderConfig; a double constant c is c * Unit *)

SCHWARZSCHILD_MULTIPLIER == 2000
PHOTON_SPHERE_MULTIPLIER == 1500
DISK_INNER_MULTIPLIER == 3000
DISK_OUTER_MULTIPLIER == 10000
MAX_RAY_STEPS == 500
MAX_RAY_DISTANCE == 50000
ADAPTIVE_STEP_FAR == 400
ADAPTIVE_STEP_MEDIUM == 200
ADAPTIVE_STEP_NEAR == 100
ADAPTIVE_STEP_CLOSE == 50

\* the product of two doubles a * b, both on the Unit grid
Mul(a, b) == RDiv(a * b, Unit)

----------------------------------------------------------------------------
(* BlackHole *)

\* BlackHole::BlackHole with the disk's radii taken from the mass instead of
\* from the Schwarzschild radius
C7_DiskFromMass(position, mass) ==
    [position             |-> position,
     mass                 |-> mass,
     schwarzschildRadius  |-> Mul(SCHWARZSCHILD_MULTIPLIER, mass),
     diskInnerRadius      |-> Mul(DISK_INNER_MULTIPLIER, mass),
     diskOuterRadius      |-> Mul(DISK_OUTER_MULTIPLIER, mass)]

\* BlackHole::BlackHole(position, mass)
BlackHole(position, mass) ==
    LET rs == Mul(SCHWARZSCHILD_MULTIPLIER, mass)
    IN  [position             |-> position,
         mass                 |-> mass,
         schwarzschildRadius  |-> rs,
         diskInnerRadius      |-> Mul(DISK_INNER_MULTIPLIER, rs),
         diskOuterRadius      |-> Mul(DISK_OUTER_MULTIPLIER, rs)]

\* the branches of applyGravitationalLensing with >= for > in line 275
C9_RegimeDistantAtTen(b, distance) ==
    IF distance < Mul(b.schwarzschildRadius, PHOTON_SPHERE_MULTIPLIER)
    THEN IF distance < b.schwarzschildRadius THEN "horizon" ELSE "strong"
    ELSE IF distance >= Mul(b.schwarzschildRadius, 10000) THEN "distant"
         ELSE "moderate"

\* The branch applyGravitationalLensing takes at `distance`
LensingRegime(b, distance) ==
    IF distance < Mul(b.schwarzschildRadius, PHOTON_SPHERE_MULTIPLIER)
    THEN IF distance < b.schwarzschildRadius THEN "horizon" ELSE "strong"
    ELSE IF distance > Mul(b.schwarzschildRadius, 10000) THEN "distant"
         ELSE "moderate"

\* What a division by zero inside applyGravitationalLensing leaves: the sum
\* handed to normalize() has infinite or NaN components.  With a NaN among them
\* (0 * inf, where towardCenter has a zero component, or 0 / 0) the length is
\* NaN, `len > 1e-10` is false and normalize() returns Vec3(); with all three
\* infinite it returns inf / inf = NaN in every component.
NormalizeOverflow(regime, towardCenter) ==
    IF regime = "strong" /\ towardCenter[1] # 0 /\ towardCenter[2] # 0
       /\ towardCenter[3] # 0
    THEN [regime |-> regime, dir |-> ZeroVec, nan |-> TRUE]
    ELSE [regime |-> regime, dir |-> ZeroVec, nan |-> FALSE]

\* BlackHole::applyGravitationalLensing(rayPosition, rayDirection):
\* [regime, dir, nan]; nan marks a direction whose components are NaN.
applyGravitationalLensing(b, rayPosition, rayDirection) ==
    LET displacement == VSub(rayPosition, b.position)
        distance     == Length(displacement)
        regime       == LensingRegime(b, distance)
        towardCenter == Normalize(VSub(b.position, rayPosition))
    IN  CASE regime = "horizon" ->
                [regime |-> regime, dir |-> rayDirection, nan |-> FALSE]
          [] regime = "strong" ->
                IF distance = b.schwarzschildRadius
                THEN NormalizeOverflow(regime, towardCenter)
                ELSE \* towardCenter * (1 / (distance - Rs)) * 0.1
                     [regime |-> regime,
                      dir    |-> Normalize(VAdd(rayDirection,
                                     VScale(towardCenter, Unit,
                                            10 * (distance - b.schwarzschildRadius)))),
                      nan    |-> FALSE]
          [] regime = "distant" ->
                [regime |-> regime, dir |-> rayDirection, nan |-> FALSE]
          [] OTHER ->
                IF distance = 0
                THEN NormalizeOverflow(regime, towardCenter)
                ELSE LET \* deflectionAngle = 2.0 * mass / (distance * distance), in DirUnit
                         deflectionAngle ==
                             RDiv(RDiv(2 * b.mass * DirUnit, distance) * Unit, distance)
                         perpendicular ==
                             Normalize(Cross(Cross(rayDirection, towardCenter), rayDirection))
                     IN  [regime |-> regime,
                          dir    |-> Normalize(VAdd(rayDirection,
                                         VScale(perpendicular, deflectionAngle, 10 * DirUnit))),
                          nan    |-> FALSE]

\* BlackHole::intersectsAccretionDisk with < and > for <= and >= in line 307:
\* the rims of the disk are left out
C11_IntersectsOpenRims(b, rayOrigin, rayDirection, before) ==
    IF Abs(rayDirection[2]) * (1000000 \div DirUnit) < 1
    THEN [hit |-> FALSE, point |-> before]
    ELSE LET intersectionTime ==
                 RDiv((b.position[2] - rayOrigin[2]) * DirUnit, rayDirection[2])
         IN  IF intersectionTime < 0 \/ intersectionTime > 2000
             THEN [hit |-> FALSE, point |-> before]
             ELSE LET intersectionPoint ==
                          VAdd(rayOrigin, VScale(rayDirection, intersectionTime, DirUnit))
                      distanceFromCenter ==
                          Length(<<intersectionPoint[1] - b.position[1], 0,
                                   intersectionPoint[3] - b.position[3]>>)
                  IN  [hit   |-> distanceFromCenter > b.diskInnerRadius
                                 /\ distanceFromCenter < b.diskOuterRadius,
                       point |-> intersectionPoint]

\* BlackHole::intersectsAccretionDisk without the test `intersectionTime < 0.0`
\* of line 297: a disk behind the ray counts
C4_IntersectsBehind(b, rayOrigin, rayDirection, before) ==
    IF Abs(rayDirection[2]) * (1000000 \div DirUnit) < 1
    THEN [hit |-> FALSE, point |-> before]
    ELSE LET intersectionTime ==
                 RDiv((b.position[2] - rayOrigin[2]) * DirUnit, rayDirection[2])
         IN  IF intersectionTime > 2000
             THEN [hit |-> FALSE, point |-> before]
             ELSE LET intersectionPoint ==
                          VAdd(rayOrigin, VScale(rayDirection, intersectionTime, DirUnit))
                      distanceFromCenter ==
                          Length(<<intersectionPoint[1] - b.position[1], 0,
                                   intersectionPoint[3] - b.position[3]>>)
                  IN  [hit   |-> distanceFromCenter >= b.diskInnerRadius
                                 /\ distanceFromCenter <= b.diskOuterRadius,
                       point |-> intersectionPoint]

\* BlackHole::intersectsAccretionDisk(rayOrigin, rayDirection, intersectionPoint):
\* [hit, point]; point is the out-parameter's value after the call, given its
\* value `before`.
intersectsAccretionDisk(b, rayOrigin, rayDirection, before) ==
    IF Abs(rayDirection[2]) * (1000000 \div DirUnit) < 1
    THEN [hit |-> FALSE, point |-> before]
    ELSE LET intersectionTime ==
                 RDiv((b.position[2] - rayOrigin[2]) * DirUnit, rayDirection[2])
         IN  IF intersectionTime < 0 \/ intersectionTime > 2000
             THEN [hit |-> FALSE, point |-> before]
             ELSE LET intersectionPoint ==
                          VAdd(rayOrigin, VScale(rayDirection, intersectionTime, DirUnit))
                      distanceFromCenter ==
                          Length(<<intersectionPoint[1] - b.position[1], 0,
                                   intersectionPoint[3] - b.position[3]>>)
                  IN  [hit   |-> distanceFromCenter >= b.diskInnerRadius
                                 /\ distanceFromCenter <= b.diskOuterRadius,
                       point |-> intersectionPoint]

----------------------------------------------------------------------------
(* Color: <<r, g, b>>, channels on the Unit grid *)

Color(r, g, b) == <<r, g, b>>
CAdd(a, b) == <<a[1] + b[1], a[2] + b[2], a[3] + b[3]>>
\* Color::operator*(double)
CScale(c, k) == <<Mul(c[1], k), Mul(c[2], k), Mul(c[3], k)>>

\* the values std::sin takes, sampled
SinSamples == {-1000, -500, 0, 500, 1000}

\* BlackHole::calculateAccretionDiskColor(point).  sinValue stands for
\* std::sin(angle * 8.0 + distanceFromCenter * 2.0), a value in [-1, 1].
\* [color, baseColor, temperature, clamped, finite]: temperature after and
\* clamped before the turbulence; finite is FALSE where the code divides zero by
\* zero or takes the square root of a negative number, and the colour is NaN.
calculateAccretionDiskColor(b, point, sinValue) ==
    LET distanceFromCenter ==
            Length(<<point[1] - b.position[1], 0, point[3] - b.position[3]>>)
        ratio == IF b.schwarzschildRadius = 0 THEN 0
                 ELSE RDiv(distanceFromCenter * Unit, b.schwarzschildRadius)
        raw == IF b.schwarzschildRadius = 0 THEN 0
               ELSE IF ratio = 0 THEN Unit
               ELSE RDiv(Unit * Unit, ratio)
        clamped == Min(1000, Max(100, raw))
        orbitalVelocity ==
            IF distanceFromCenter > 0 /\ b.mass >= 0
            THEN Sqrt(RDiv(b.mass * Unit, distanceFromCenter) * Unit)
            ELSE 0
        dopplerFactor == Unit + RDiv(orbitalVelocity, 10)
        turbulence == RDiv(sinValue * 150, Unit) + Unit
        temperature == Mul(clamped, turbulence)
        baseColor == IF temperature > 800 THEN Color(1000, 950, 800)
                     ELSE IF temperature > 600 THEN Color(1000, 800, 400)
                     ELSE IF temperature > 400 THEN Color(1000, 600, 200)
                     ELSE Color(800, 300, 100)
    IN  [color       |-> CScale(CScale(baseColor, temperature), dopplerFactor),
         baseColor   |-> baseColor,
         temperature |-> temperature,
         clamped     |-> clamped,
         finite      |-> distanceFromCenter > 0 /\ b.mass >= 0]

\* Color::clamp
Clamp(c) == <<Min(1000, Max(0, c[1])), Min(1000, Max(0, c[2])), Min(1000, Max(0, c[3]))>>

\* Color::enhanceContrast(contrast = 1.2)
enhanceContrast(c) ==
    <<Min(1000, Max(0, Mul(c[1] - 500, 1200) + 500)),
      Min(1000, Max(0, Mul(c[2] - 500, 1200) + 500)),
      Min(1000, Max(0, Mul(c[3] - 500, 1200) + 500))>>

----------------------------------------------------------------------------
(* Camera *)

\* std::tan(RenderConfig::FOV * 0.5) = tan(0.392699) = 0.41421, as a direction
TAN_HALF_FOV == 4142

\* Camera::Camera(position, direction, up, fov); aspectRatio_ starts at 1.0
Camera(position, dir, up) ==
    [position |-> position, direction |-> Normalize(dir), up |-> Normalize(up),
     aspectRatio |-> Unit]

\* Camera::getRayDirection without the centring `- 1.0` and `1.0 -` of lines
\* 197-198: pixel (0, 0) is taken for the image centre
C3_UncentredRayDirection(c, x4, y4, width, height) ==
    LET px == Mul(RDiv(2 * x4 * TAN_HALF_FOV, 4 * width), c.aspectRatio)
        py == RDiv(-(2 * y4) * TAN_HALF_FOV, 4 * height)
        right == Normalize(Cross(c.direction, c.up))
        newUp == Normalize(Cross(right, c.direction))
    IN  Normalize(VAdd(c.direction,
                       VAdd(VScale(right, px, DirUnit), VScale(newUp, py, DirUnit))))

\* Camera::getRayDirection(x, y, width, height); the pixel coordinates are given
\* in quarter pixels, x4 = 4 * x (render asks for x + 0.25 and x + 0.75)
getRayDirection(c, x4, y4, width, height) ==
    LET px == Mul(RDiv((2 * x4 - 4 * width) * TAN_HALF_FOV, 4 * width), c.aspectRatio)
        py == RDiv((4 * height - 2 * y4) * TAN_HALF_FOV, 4 * height)
        right == Normalize(Cross(c.direction, c.up))
        newUp == Normalize(Cross(right, c.direction))
    IN  Normalize(VAdd(c.direction,
                       VAdd(VScale(right, px, DirUnit), VScale(newUp, py, DirUnit))))

----------------------------------------------------------------------------
(* traceRay *)

\* lines 359-366 with >= for >
C8_StepInclusive(b, d) ==
    IF d >= Mul(b.schwarzschildRadius, 8000) THEN ADAPTIVE_STEP_FAR
    ELSE IF d >= Mul(b.schwarzschildRadius, 5000) THEN ADAPTIVE_STEP_MEDIUM
    ELSE IF d >= Mul(b.schwarzschildRadius, 2000) THEN ADAPTIVE_STEP_NEAR
    ELSE ADAPTIVE_STEP_CLOSE

\* lines 359-366: the adaptive step size at distance d
AdaptiveStep(b, d) ==
    IF d > Mul(b.schwarzschildRadius, 8000) THEN ADAPTIVE_STEP_FAR
    ELSE IF d > Mul(b.schwarzschildRadius, 5000) THEN ADAPTIVE_STEP_MEDIUM
    ELSE IF d > Mul(b.schwarzschildRadius, 2000) THEN ADAPTIVE_STEP_NEAR
    ELSE ADAPTIVE_STEP_CLOSE

\* line 369 without the factor 1.01
C2_HorizonAtRs(b, d) == d < b.schwarzschildRadius

\* line 369: the event-horizon test
InsideHorizon(b, d) == d < Mul(b.schwarzschildRadius, 1010)

\* line 394 without its test: the direction is bent in every step
C10_EveryStep(s) == TRUE

\* line 394: the steps in which the direction is bent
LensingStep(s) == s % 3 = 0

\* lines 376-389: the colour of a disk hit at `point`, seen from `position`
DiskHitColor(b, position, point, hitDistance, sinValue) ==
    LET diskColor == calculateAccretionDiskColor(b, point, sinValue).color
        intensity == Unit + RDiv(500 * Unit, Unit + hitDistance)
        distToCenter == DistanceTo(position, b.position)
        flareStrength == RDiv(Unit * Unit, Unit + (distToCenter - b.schwarzschildRadius))
        flare == CScale(CScale(Color(800, 900, 1000), flareStrength), 300)
    IN  IF distToCenter < Mul(b.schwarzschildRadius, 4000)
        THEN CScale(CAdd(diskColor, flare), intensity)
        ELSE CScale(diskColor, intensity)

\* the values hasher(seed) % 1000 takes, sampled around the thresholds
NoiseSamples == {0, 700, 701, 975, 976, 985, 986, 994, 995, 999}

\* lines 406-430: the background colour; noise and nebulaNoise stand for the two
\* values hasher(...) % 1000 (std::hash is implementation-defined)
Background(noise, nebulaNoise) ==
    IF noise > 994 THEN CScale(Color(1000, 1000, 1000), (noise - 994) * 50)
    ELSE IF noise > 985 THEN CScale(Color(800, 800, 1000), (noise - 985) * 15)
    ELSE IF noise > 975 THEN CScale(Color(1000, 700, 500), (noise - 975) * 8)
    ELSE IF nebulaNoise > 700
         THEN CAdd(Color(30, 30, 80),
                   CScale(CScale(Color(100, 50, 150), nebulaNoise - 700), 500))
         ELSE Color(30, 30, 80)

NoResult == [kind |-> "none", color |-> Color(0, 0, 0)]

\* line 355: the loop test; lines 356-366: the distance and the step size
BeginStep ==
    /\ pc = "loop"
    /\ IF step < MAX_RAY_STEPS
       THEN /\ distanceToBlackHole' = DistanceTo(currentPosition, bh.position)
            /\ stepSize' = AdaptiveStep(bh, DistanceTo(currentPosition, bh.position))
            /\ iterations' = iterations + 1
            /\ pc' = "horizon"
       ELSE /\ pc' = "background"
            /\ UNCHANGED <<distanceToBlackHole, stepSize, iterations>>
    /\ UNCHANGED <<pureVars, renderVars, bh, origin, argDirection, currentPosition, direction, totalDistance, step,
                   result, diskCalls, lensCalls, lensRegime>>

\* the step without lines 368-371: the ray goes on to the disk test and to
\* lensing wherever it is
C12_HorizonCheckSkipped ==
    /\ pc = "horizon"
    /\ pc' = "disk"
    /\ UNCHANGED result
    /\ UNCHANGED <<pureVars, renderVars, bh, origin, argDirection, currentPosition, direction, totalDistance, step,
                   distanceToBlackHole, stepSize, iterations, diskCalls,
                   lensCalls, lensRegime>>

\* lines 368-371
HorizonCheck ==
    /\ pc = "horizon"
    /\ IF InsideHorizon(bh, distanceToBlackHole)
       THEN /\ result' = [kind |-> "horizon", color |-> Color(0, 0, 0)]
            /\ pc' = "done"
       ELSE /\ pc' = "disk"
            /\ UNCHANGED result
    /\ UNCHANGED <<pureVars, renderVars, bh, origin, argDirection, currentPosition, direction, totalDistance, step,
                   distanceToBlackHole, stepSize, iterations, diskCalls,
                   lensCalls, lensRegime>>

\* lines 373-391
DiskTest ==
    /\ pc = "disk"
    /\ diskCalls' = diskCalls + 1
    /\ LET r == intersectsAccretionDisk(bh, currentPosition, direction, ZeroVec)
           hitDistance == DistanceTo(currentPosition, r.point)
       IN  IF r.hit /\ hitDistance < Mul(stepSize, 2000)
           THEN /\ \E s \in SinSamples :
                      result' = [kind  |-> "disk",
                                 color |-> DiskHitColor(bh, currentPosition, r.point,
                                                        hitDistance, s)]
                /\ pc' = "done"
           ELSE /\ pc' = "lens"
                /\ UNCHANGED result
    /\ UNCHANGED <<pureVars, renderVars, bh, origin, argDirection, currentPosition, direction, totalDistance, step,
                   distanceToBlackHole, stepSize, iterations, lensCalls, lensRegime>>

\* lines 393-396
Lensing ==
    /\ pc = "lens"
    /\ IF LensingStep(step)
       THEN LET r == applyGravitationalLensing(bh, currentPosition, direction)
            IN  /\ direction' = r.dir
                /\ lensCalls' = lensCalls + 1
                /\ lensRegime' = r.regime
       ELSE UNCHANGED <<direction, lensCalls, lensRegime>>
    /\ pc' = "advance"
    /\ UNCHANGED <<pureVars, renderVars, bh, origin, argDirection, currentPosition, totalDistance, step,
                   distanceToBlackHole, stepSize, result, iterations, diskCalls>>

\* line 401 without its test: the distance budget is never seen as exceeded
C1_NeverExceeds(total) == {FALSE}

\* line 401: totalDistance > MAX_RAY_DISTANCE.  The step sizes 0.4, 0.2, 0.1 and
\* 0.05 are not doubles, so the accumulated double differs from the exact sum by
\* its rounding error: where the exact sum is MAX_RAY_DISTANCE itself the double
\* lies on either side of it (500 additions of 0.1 give 50.000000000000441).
ExceedsMaxDistance(total) ==
    IF total = MAX_RAY_DISTANCE THEN {TRUE, FALSE} ELSE {total > MAX_RAY_DISTANCE}

\* lines 398-403 and the loop's ++step
Advance ==
    /\ pc = "advance"
    /\ currentPosition' = VAdd(currentPosition, VScale(direction, stepSize, DirUnit))
    /\ totalDistance' = totalDistance + stepSize
    /\ \E exceeded \in ExceedsMaxDistance(totalDistance + stepSize) :
           IF exceeded
           THEN pc' = "background" /\ UNCHANGED step
           ELSE pc' = "loop" /\ step' = step + 1
    /\ UNCHANGED <<pureVars, renderVars, bh, origin, argDirection, direction, distanceToBlackHole, stepSize,
                   result, iterations, diskCalls, lensCalls, lensRegime>>

\* lines 406-430
ReturnBackground ==
    /\ pc = "background"
    /\ \E noise \in NoiseSamples, nebulaNoise \in NoiseSamples :
           result' = [kind |-> "background", color |-> Background(noise, nebulaNoise)]
    /\ pc' = "done"
    /\ UNCHANGED <<pureVars, renderVars, bh, origin, argDirection, currentPosition, direction, totalDistance, step,
                   distanceToBlackHole, stepSize, iterations, diskCalls,
                   lensCalls, lensRegime>>

----------------------------------------------------------------------------
(* Values of the variables a specification does not use *)

NoCall == [fn |-> "none"]
NoReturn == [done |-> FALSE]
NoCamera == Camera(ZeroVec, <<0, 0, 1>>, <<0, 1, 0>>)

TraceIdle ==
    /\ origin = ZeroVec
    /\ argDirection = ZeroVec
    /\ currentPosition = ZeroVec
    /\ direction = ZeroVec
    /\ totalDistance = 0
    /\ step = 0
    /\ distanceToBlackHole = 0
    /\ stepSize = 0
    /\ pc = "idle"
    /\ result = NoResult
    /\ iterations = 0
    /\ diskCalls = 0
    /\ lensCalls = 0
    /\ lensRegime = "none"

PureIdle == call = NoCall /\ ret = NoReturn

RenderIdle ==
    /\ cam = NoCamera
    /\ w = 0
    /\ h = 0
    /\ x = 0
    /\ y = 0
    /\ dx = 0
    /\ dy = 0
    /\ pixelSum = Color(0, 0, 0)
    /\ image = <<>>
    /\ rpc = "idle"
    /\ scene = 0
    /\ traceCalls = 0
    /\ file = <<>>

----------------------------------------------------------------------------
(* Spec: the calls of traceRay that are checked *)

MaxMassHalves == 2

\* masses 0.5, 1.0, ...
Masses == {k * 500 : k \in 1..MaxMassHalves}

\* the masses a BlackHole can be constructed with, the non-positive ones among
\* them: the constructor takes any double
RenderMasses == Masses \cup {0, -1000}

HolePositions == {<<0, 0, 0>>, <<1000, -500, 2000>>}

\* main's camera positions (lines 488-492)
CameraPositions == {<<0, 2000, -8000>>, <<-6000, 1000, -4000>>, <<0, 5000, -6000>>}

\* main's camera i (lines 495-498): at position c, looking at the origin
MainCamera(c) == Camera(c, Normalize(VSub(ZeroVec, c)), <<0, 1, 0>>)

\* ray origins relative to the hole, in hundredths of its Schwarzschild radius:
\* at 0.5, 1, 1.01, 1.5, 1.75, 2, 5, 8 and 10 Rs on an axis, and off the axes
RelativeOrigins ==
    {<<50, 0, 0>>, <<0, 0, -100>>, <<0, 101, 0>>, <<0, 0, -150>>, <<0, 175, 0>>,
     <<0, 0, -200>>, <<0, 0, -500>>, <<0, 0, -800>>, <<0, 0, -1000>>,
     <<350, 50, 0>>, <<0, 100, -400>>}

\* points the ray is aimed at, relative to the hole, in hundredths of Rs
RelativeTargets ==
    {<<0, 0, 0>>, <<0, 0, -350>>, <<350, 0, 0>>, <<150, 25, 0>>, <<0, 2500, -5000>>}

Scaled(v, rs) == <<(v[1] * rs) \div 100, (v[2] * rs) \div 100, (v[3] * rs) \div 100>>

\* the entry of traceRay(o, d, b): lines 351-353
TraceInit(b, o, d) ==
    /\ bh = b
    /\ origin = o
    /\ argDirection = d
    /\ currentPosition = o
    /\ direction = d
    /\ totalDistance = 0
    /\ step = 0
    /\ distanceToBlackHole = 0
    /\ stepSize = 0
    /\ pc = "loop"
    /\ result = NoResult
    /\ iterations = 0
    /\ diskCalls = 0
    /\ lensCalls = 0
    /\ lensRegime = "none"

Init ==
    /\ PureIdle
    /\ RenderIdle
    /\ \E m \in Masses, p \in HolePositions :
        LET b == BlackHole(p, m)
        IN  \/ \E o \in RelativeOrigins, t \in RelativeTargets :
                   LET from == VAdd(p, Scaled(o, b.schwarzschildRadius))
                       to   == VAdd(p, Scaled(t, b.schwarzschildRadius))
                   IN  TraceInit(b, from, Normalize(VSub(to, from)))
            \/ \E o \in RelativeOrigins :
                   TraceInit(b, VAdd(p, Scaled(o, b.schwarzschildRadius)), ZeroVec)
            \/ \E c \in CameraPositions :
                   \* the ray through the centre of the 800 x 600 image
                   /\ m = 1000
                   /\ p = ZeroVec
                   /\ TraceInit(b, c, getRayDirection(MainCamera(c), 1600, 1200, 800, 600))

Next ==
    \/ BeginStep
    \/ HorizonCheck
    \/ DiskTest
    \/ Lensing
    \/ Advance
    \/ ReturnBackground

Spec == Init /\ [][Next]_vars

----------------------------------------------------------------------------
(* SpecCalls: BlackHole's const methods, one call on each hole and argument *)

\* distances of the ray position to the hole, around the regime boundaries
LensDistances(b) ==
    LET rs == b.schwarzschildRadius
    IN  {0, rs \div 2, rs - 1, rs, rs + 1,
         Mul(rs, PHOTON_SPHERE_MULTIPLIER) - 1, Mul(rs, PHOTON_SPHERE_MULTIPLIER),
         Mul(rs, PHOTON_SPHERE_MULTIPLIER) + 1, 5 * rs,
         10 * rs - 5, 10 * rs - 1, 10 * rs, 10 * rs + 1, 10 * rs + 5, 12 * rs}

\* the point at distance d from the origin on the x axis, on the negative z
\* axis, and in the direction (3, 4, 0) / 5
AtDistance(d) == {<<d, 0, 0>>, <<0, 0, -d>>, <<(3 * d) \div 5, (4 * d) \div 5, 0>>}

LensDirections == {<<0, 0, DirUnit>>, <<DirUnit, 0, 0>>, <<0, DirUnit, 0>>}

\* radial distances of a ray origin to the hole's axis, around the disk's rims
DiskRadii(b) ==
    {0, 500, b.diskInnerRadius - 1, b.diskInnerRadius, b.diskInnerRadius + 1,
     (b.diskInnerRadius + b.diskOuterRadius) \div 2,
     b.diskOuterRadius - 1, b.diskOuterRadius, b.diskOuterRadius + 1}

\* heights of a ray origin over the disk plane, around the 2.0 of line 297
DiskHeights == {-2001, -2000, -1000, -1, 0, 1, 1000, 2000, 2001}

\* along the polar axis, in the disk plane, one grid step out of the plane, and
\* oblique
DiskDirections ==
    {<<0, DirUnit, 0>>, <<0, -DirUnit, 0>>, <<DirUnit, 0, 0>>, <<DirUnit, 1, 0>>,
     Normalize(<<1, -1, 0>>), Normalize(<<0, 1, 1>>)}

\* bh.applyGravitationalLensing(rayPosition, rayDirection)
CallLensing ==
    /\ pc = "idle" /\ rpc = "idle"
    /\ call = NoCall
    /\ \E d \in LensDistances(bh) : \E o \in AtDistance(d) : \E dir \in LensDirections :
           /\ call' = [fn |-> "applyGravitationalLensing",
                       rayPosition |-> VAdd(bh.position, o), rayDirection |-> dir]
           /\ ret' = [done |-> TRUE,
                      value |-> applyGravitationalLensing(bh, VAdd(bh.position, o), dir)]
    /\ UNCHANGED <<bh, traceVars, renderVars>>

\* bh.intersectsAccretionDisk(rayOrigin, rayDirection, intersectionPoint), the
\* out-parameter holding `before`
CallIntersects ==
    /\ pc = "idle" /\ rpc = "idle"
    /\ call = NoCall
    /\ \E r \in DiskRadii(bh), height \in DiskHeights, dir \in DiskDirections :
       \E o \in {<<r, height, 0>>, <<0, height, -r>>} :
       \E before \in {ZeroVec, <<7000, 7000, 7000>>} :
           /\ call' = [fn |-> "intersectsAccretionDisk",
                       rayOrigin |-> VAdd(bh.position, o), rayDirection |-> dir,
                       intersectionPoint |-> before]
           /\ ret' = [done |-> TRUE,
                      value |-> intersectsAccretionDisk(bh, VAdd(bh.position, o), dir, before)]
    /\ UNCHANGED <<bh, traceVars, renderVars>>

\* bh.calculateAccretionDiskColor(point), point in the disk plane or off it
CallDiskColor ==
    /\ pc = "idle" /\ rpc = "idle"
    /\ call = NoCall
    /\ \E r \in DiskRadii(bh), height \in {0, 1000}, s \in SinSamples :
       \E o \in {<<r, height, 0>>, <<0, height, -r>>, <<(3 * r) \div 5, height, (4 * r) \div 5>>} :
           /\ call' = [fn |-> "calculateAccretionDiskColor", point |-> VAdd(bh.position, o),
                       sinValue |-> s]
           /\ ret' = [done |-> TRUE,
                      value |-> calculateAccretionDiskColor(bh, VAdd(bh.position, o), s)]
    /\ UNCHANGED <<bh, traceVars, renderVars>>

InitCalls ==
    /\ TraceIdle
    /\ RenderIdle
    /\ PureIdle
    /\ \E m \in Masses, p \in HolePositions : bh = BlackHole(p, m)

NextCalls == CallLensing \/ CallIntersects

SpecCalls == InitCalls /\ [][NextCalls]_vars

\* calculateAccretionDiskColor on every hole the constructor builds
InitDiskColor ==
    /\ TraceIdle
    /\ RenderIdle
    /\ PureIdle
    /\ \E m \in RenderMasses, p \in HolePositions : bh = BlackHole(p, m)

NextDiskColor == CallDiskColor

SpecDiskColor == InitDiskColor /\ [][NextDiskColor]_vars

----------------------------------------------------------------------------
(* SpecRender: main constructs a BlackHole and a Camera and calls render *)

MaxWidth == 2
MaxHeight == 10
MaxScene == 4

\* render's int arguments w and h, the non-positive ones among them
Widths == -1..MaxWidth
Heights == -1..MaxHeight

\* the BlackHole object before its constructor has run
NoHole == [position |-> ZeroVec, mass |-> 0, schwarzschildRadius |-> 0,
           diskInnerRadius |-> 0, diskOuterRadius |-> 0]

\* colours traceRay returns: the horizon's black, the plain background, a star,
\* a disk hit, and a colour with channels above 1
Palette ==
    <<Color(0, 0, 0), Color(30, 30, 80), Color(250, 250, 250), Color(334, 125, 42),
      Color(1450, 1100, 950)>>

\* traceRay is a function of its arguments: the colour it returns to render for
\* sub-sample (sx, sy) of pixel (px, py) in scene sc.  Three sub-samples of a
\* pixel see the same thing, the fourth its neighbour.
SceneColor(sc, px, py, sx, sy) ==
    Palette[((sc + px + 2 * py + sx * sy) % Len(Palette)) + 1]

\* an element of the image: the Color, and (history) how often it was assigned
Cell(c, n) == [color |-> c, stores |-> n]

\* line 485: BlackHole bh(position, mass); the constructor checks nothing
Construct ==
    /\ rpc = "main"
    /\ \E m \in RenderMasses, p \in HolePositions : bh' = BlackHole(p, m)
    /\ rpc' = "constructed"
    /\ UNCHANGED <<traceVars, pureVars, cam, w, h, x, y, dx, dy, pixelSum, image, scene,
                   traceCalls, file>>

\* lines 495-500: the camera is set up and render(cam, bh, w, h, filename) is called
CallRender ==
    /\ rpc = "constructed"
    /\ \E c \in CameraPositions : cam' = MainCamera(c)
    /\ w' \in Widths
    /\ h' \in Heights
    /\ scene' \in 0..MaxScene
    /\ rpc' = "alloc"
    /\ UNCHANGED <<bh, traceVars, pureVars, x, y, dx, dy, pixelSum, image, traceCalls, file>>

\* line 437: std::vector<std::vector<Color>> image(h, std::vector<Color>(w)).
\* A negative int converts to a size_t above max_size(): the vector constructor
\* throws std::length_error, which nothing catches.
RenderAlloc ==
    /\ rpc = "alloc"
    /\ IF w < 0 \/ h < 0
       THEN /\ rpc' = "threw"
            /\ UNCHANGED <<image, y>>
       ELSE /\ image' = [r \in 0..(h - 1) |-> [c \in 0..(w - 1) |-> Cell(Color(0, 0, 0), 0)]]
            /\ y' = 0
            /\ rpc' = "row"
    /\ UNCHANGED <<bh, traceVars, pureVars, cam, w, h, x, dx, dy, pixelSum, scene,
                   traceCalls, file>>

\* lines 441-446: the row loop's test and the progress check y % (h / 10).
\* For h < 10 the divisor h / 10 is 0: the behaviour is undefined, the build
\* either traps (SIGFPE) or goes on.
RenderRow ==
    /\ rpc = "row"
    /\ IF y < h
       THEN \E outcome \in (IF h \div 10 = 0 THEN {"trap", "continue"} ELSE {"continue"}) :
                IF outcome = "trap"
                THEN rpc' = "crashed" /\ UNCHANGED x
                ELSE rpc' = "pixel" /\ x' = 0
       ELSE rpc' = "open" /\ UNCHANGED x
    /\ UNCHANGED <<bh, traceVars, pureVars, cam, w, h, y, dx, dy, pixelSum, image, scene,
                   traceCalls, file>>

\* lines 446-449: the column loop's test, pixelSum(0, 0, 0), and the row's ++y
RenderPixel ==
    /\ rpc = "pixel"
    /\ IF x < w
       THEN /\ pixelSum' = Color(0, 0, 0)
            /\ dx' = 0
            /\ dy' = 0
            /\ rpc' = "sample"
            /\ UNCHANGED y
       ELSE /\ y' = y + 1
            /\ rpc' = "row"
            /\ UNCHANGED <<pixelSum, dx, dy>>
    /\ UNCHANGED <<bh, currentPosition, direction, totalDistance, step, distanceToBlackHole,
                   stepSize, pc, result, iterations, diskCalls, lensCalls, lensRegime,
                   origin, argDirection, pureVars, cam, w, h, x, image, scene, traceCalls, file>>

\* lines 449-456: one sub-sample: subX = x + (dx + 0.5) * 0.5, the ray direction,
\* the call of traceRay(cam.position(), rayDirection, bh), and the loops' ++dy, ++dx
RenderSample ==
    /\ rpc = "sample"
    /\ origin' = cam.position
    /\ argDirection' = getRayDirection(cam, 4 * x + 2 * dx + 1, 4 * y + 2 * dy + 1, w, h)
    /\ traceCalls' = traceCalls + 1
    /\ pixelSum' = CAdd(pixelSum, SceneColor(scene, x, y, dx, dy))
    /\ IF dy + 1 < 2
       THEN dy' = dy + 1 /\ UNCHANGED <<dx, rpc>>
       ELSE /\ dy' = 0
            /\ dx' = dx + 1
            /\ rpc' = IF dx + 1 < 2 THEN "sample" ELSE "store"
    /\ UNCHANGED <<bh, currentPosition, direction, totalDistance, step, distanceToBlackHole,
                   stepSize, pc, result, iterations, diskCalls, lensCalls, lensRegime,
                   pureVars, cam, w, h, x, y, image, scene, file>>

\* line 457 without .enhanceContrast().clamp()
C5_StoreUnclamped ==
    /\ rpc = "store"
    /\ image' = [image EXCEPT ![y][x] = Cell(CScale(pixelSum, 250), @.stores + 1)]
    /\ x' = x + 1
    /\ rpc' = "pixel"
    /\ UNCHANGED <<bh, traceVars, pureVars, cam, w, h, y, dx, dy, pixelSum, scene,
                   traceCalls, file>>

\* line 457: image[y][x] = (pixelSum * 0.25).enhanceContrast().clamp(), and ++x
RenderStore ==
    /\ rpc = "store"
    /\ image' = [image EXCEPT ![y][x] =
                     Cell(Clamp(enhanceContrast(CScale(pixelSum, 250))), @.stores + 1)]
    /\ x' = x + 1
    /\ rpc' = "pixel"
    /\ UNCHANGED <<bh, traceVars, pureVars, cam, w, h, y, dx, dy, pixelSum, scene,
                   traceCalls, file>>

\* lines 461-462: the file is opened and the header "P3 w h 255" written
RenderOpen ==
    /\ rpc = "open"
    /\ file' = <<<<w, h, 255>>>>
    /\ y' = 0
    /\ x' = 0
    /\ rpc' = "write"
    /\ UNCHANGED <<bh, traceVars, pureVars, cam, w, h, dx, dy, pixelSum, image, scene,
                   traceCalls>>

\* lines 464-475: the write loops: int(c.r() * 255) and so on, one line a pixel
RenderWrite ==
    /\ rpc = "write"
    /\ IF y < h
       THEN IF x < w
            THEN /\ file' = Append(file, <<Trunc(image[y][x].color[1] * 255, Unit),
                                           Trunc(image[y][x].color[2] * 255, Unit),
                                           Trunc(image[y][x].color[3] * 255, Unit)>>)
                 /\ x' = x + 1
                 /\ UNCHANGED <<y, rpc>>
            ELSE /\ y' = y + 1
                 /\ x' = 0
                 /\ UNCHANGED <<file, rpc>>
       ELSE /\ rpc' = "saved"
            /\ UNCHANGED <<file, x, y>>
    /\ UNCHANGED <<bh, traceVars, pureVars, cam, w, h, dx, dy, pixelSum, image, scene,
                   traceCalls>>

InitRender ==
    /\ TraceIdle
    /\ PureIdle
    /\ bh = NoHole
    /\ cam = NoCamera
    /\ w = 0
    /\ h = 0
    /\ x = 0
    /\ y = 0
    /\ dx = 0
    /\ dy = 0
    /\ pixelSum = Color(0, 0, 0)
    /\ image = <<>>
    /\ rpc = "main"
    /\ scene = 0
    /\ traceCalls = 0
    /\ file = <<>>

NextRender ==
    \/ Construct
    \/ CallRender
    \/ RenderAlloc
    \/ RenderRow
    \/ RenderPixel
    \/ RenderSample
    \/ RenderStore
    \/ RenderOpen
    \/ RenderWrite

SpecRender == InitRender /\ [][NextRender]_vars

----------------------------------------------------------------------------
(* SpecProgram: every operation of the program *)

InitProgram == Init \/ InitCalls \/ InitRender

NextProgram == Next \/ NextCalls \/ NextDiskColor \/ NextRender

SpecProgram == InitProgram /\ [][NextProgram]_vars

----------------------------------------------------------------------------
(* Predicates used by the claims *)

InLoopBody == pc \in {"horizon", "disk", "lens", "advance"}
Black == Color(0, 0, 0)

\* the end-to-end scene: the hole of mass 1 at the origin, the camera at
\* (0, 2, -8) looking at it, and the ray through pixel (400, 300) of 800 x 600
IsCentreRay ==
    /\ bh = BlackHole(ZeroVec, 1000)
    /\ origin = <<0, 2000, -8000>>
    /\ argDirection = getRayDirection(MainCamera(<<0, 2000, -8000>>), 1600, 1200, 800, 600)

----------------------------------------------------------------------------
\* C1: traceRay terminates for every origin, direction and BlackHole: the loop
\* body is entered at most MAX_RAY_STEPS times and only while the accumulated
\* distance has not exceeded MAX_RAY_DISTANCE; the loop is left either with
\* step = MAX_RAY_STEPS or at the end of the first iteration whose accumulated
\* distance exceeds MAX_RAY_DISTANCE, and then a background colour is returned;
\* every step of the march strictly decreases a rank that starts at
\* 6 * MAX_RAY_STEPS + 2 and is 0 exactly at the return, so that no geometry
\* keeps the loop running.
C1_MarchBounded ==
    /\ iterations <= MAX_RAY_STEPS
    /\ step <= MAX_RAY_STEPS
    /\ pc = "loop" => iterations = step /\ totalDistance <= MAX_RAY_DISTANCE
    /\ InLoopBody => /\ step < MAX_RAY_STEPS
                     /\ iterations = step + 1
                     /\ totalDistance <= MAX_RAY_DISTANCE
    /\ (pc = "background" \/ (pc = "done" /\ result.kind = "background")) =>
           \/ step = MAX_RAY_STEPS /\ iterations = MAX_RAY_STEPS
           \/ /\ step < MAX_RAY_STEPS
              /\ totalDistance >= MAX_RAY_DISTANCE
              /\ totalDistance - stepSize <= MAX_RAY_DISTANCE

\* what is left of the march: the steps not yet begun, then the rest of this step
C1_Rank ==
    CASE pc = "done"       -> 0
      [] pc = "background" -> 1
      [] pc = "advance"    -> 6 * (MAX_RAY_STEPS - step) - 3
      [] pc = "lens"       -> 6 * (MAX_RAY_STEPS - step) - 2
      [] pc = "disk"       -> 6 * (MAX_RAY_STEPS - step) - 1
      [] pc = "horizon"    -> 6 * (MAX_RAY_STEPS - step)
      [] pc = "loop"       -> 6 * (MAX_RAY_STEPS - step) + 2

C1_RankDecreases ==
    /\ C1_Rank >= 0
    /\ C1_Rank' >= 0
    /\ C1_Rank' < C1_Rank
    /\ pc' = "done" => result'.kind \in {"horizon", "disk", "background"}

C1_TraceRayTerminates == []C1_MarchBounded /\ [][C1_RankDecreases]_vars

\* a ray that lensing has bent leaves the loop by the distance budget
C1_Witness ==
    /\ pc = "done"
    /\ result.kind = "background"
    /\ step < MAX_RAY_STEPS
    /\ totalDistance > MAX_RAY_DISTANCE
    /\ lensCalls > 1
    /\ direction # argDirection

----------------------------------------------------------------------------
\* C2: a march step whose position is at distance < 1.01 Rs returns
\* Color(0,0,0) in that step without calling intersectsAccretionDisk; a ray
\* that starts at 0.5 Rs from a hole of mass 1.0 returns Color(0,0,0) with no
\* call of intersectsAccretionDisk at all.
C2_PastHorizonCheck ==
    /\ pc \in {"disk", "lens", "advance"} =>
           100 * distanceToBlackHole >= 101 * bh.schwarzschildRadius
    /\ pc = "disk" => diskCalls = iterations - 1
    /\ pc \in {"lens", "advance"} => diskCalls = iterations
    /\ (pc = "done" /\ result.kind = "horizon") =>
           /\ result.color = Black
           /\ diskCalls = iterations - 1
           /\ 100 * distanceToBlackHole < 101 * bh.schwarzschildRadius
    /\ (bh.mass = 1000 /\ 2 * DistanceTo(origin, bh.position) = bh.schwarzschildRadius) =>
           /\ pc \in {"loop", "horizon", "done"}
           /\ diskCalls = 0
           /\ pc = "done" => result = [kind |-> "horizon", color |-> Black]

C2_HorizonStep ==
    (/\ pc = "horizon"
     /\ 100 * DistanceTo(currentPosition, bh.position) < 101 * bh.schwarzschildRadius)
    => /\ pc' = "done"
       /\ result' = [kind |-> "horizon", color |-> Black]
       /\ diskCalls' = diskCalls

C2_HorizonCaptures == []C2_PastHorizonCheck /\ [][C2_HorizonStep]_vars

C2_Witness ==
    /\ bh.mass = 1000
    /\ 2 * DistanceTo(origin, bh.position) = bh.schwarzschildRadius
    /\ pc = "done"
    /\ result = [kind |-> "horizon", color |-> Black]
    /\ diskCalls = 0

----------------------------------------------------------------------------
\* C3 as stated: the centre ray of the end-to-end scene ends in a disk hit or in
\* the background colour, never in the horizon-capture result Color(0,0,0).
C3_CentreRayNotCaptured ==
    (IsCentreRay /\ pc = "done") =>
        /\ result.kind \in {"disk", "background"}
        /\ result.color # Black

\* C3 amended: the centre ray of the end-to-end scene is aimed at the hole's
\* centre, never registers a disk hit and ends in the horizon-capture result
\* Color(0,0,0).
C3_CentreRayCaptured ==
    IsCentreRay =>
        /\ result.kind \in {"none", "horizon"}
        /\ pc = "done" => result = [kind |-> "horizon", color |-> Black]

C3_Witness ==
    /\ IsCentreRay
    /\ pc = "done"
    /\ result.kind = "horizon"
    /\ iterations > 1
    /\ diskCalls = iterations - 1

----------------------------------------------------------------------------
\* the call is intersectsAccretionDisk with a direction along the polar axis,
\* (0,1,0) or (0,-1,0), from an origin off the axis
IsPolarCall ==
    /\ call.fn = "intersectsAccretionDisk"
    /\ call.rayDirection \in {<<0, DirUnit, 0>>, <<0, -DirUnit, 0>>}
    /\ \/ call.rayOrigin[1] # bh.position[1]
       \/ call.rayOrigin[3] # bh.position[3]

\* the distance along the polar ray to the disk plane (negative: behind)
PolarTime == (bh.position[2] - call.rayOrigin[2]) * (call.rayDirection[2] \div DirUnit)

\* the distance of the ray origin to the hole's axis
PolarRadius ==
    Length(<<call.rayOrigin[1] - bh.position[1], 0, call.rayOrigin[3] - bh.position[3]>>)

\* C4 as stated: from an origin off the polar axis, with direction (0,1,0) or
\* (0,-1,0), intersectsAccretionDisk returns false whatever the origin's height
\* and radial distance.
C4_PolarRayNeverHits ==
    IsPolarCall => ret.value.hit = FALSE

\* C4 amended: from an origin off the polar axis, with direction (0,1,0) or
\* (0,-1,0), intersectsAccretionDisk returns true exactly when the disk plane is
\* ahead of the origin at a distance of at most 2.0 and the origin's radial
\* distance from the axis lies in [diskInner, diskOuter], and false otherwise;
\* when the plane is behind or further than 2.0 the out-parameter is untouched,
\* else it is the point of the plane under (over) the origin.
C4_PolarRayHitsInsideRims ==
    IsPolarCall =>
        /\ ret.value.hit = (/\ PolarTime >= 0
                            /\ PolarTime <= 2000
                            /\ PolarRadius >= bh.diskInnerRadius
                            /\ PolarRadius <= bh.diskOuterRadius)
        /\ ret.value.point =
               IF PolarTime >= 0 /\ PolarTime <= 2000
               THEN <<call.rayOrigin[1], bh.position[2], call.rayOrigin[3]>>
               ELSE call.intersectionPoint

\* a polar ray from one unit over the disk, at the inner rim, is a hit
C4_Witness ==
    /\ IsPolarCall
    /\ PolarTime = 1000
    /\ PolarRadius = bh.diskInnerRadius
    /\ ret.value.hit

----------------------------------------------------------------------------
\* the sum of the colours traceRay returned for the sub-samples of pixel (px, py)
SubSampleSum(px, py) ==
    CAdd(CAdd(SceneColor(scene, px, py, 0, 0), SceneColor(scene, px, py, 0, 1)),
         CAdd(SceneColor(scene, px, py, 1, 0), SceneColor(scene, px, py, 1, 1)))

InUnitRange(c) == \A i \in 1..3 : c[i] >= 0 /\ c[i] <= Unit

PixelLoopDone == rpc \in {"open", "write", "saved"}

\* C5: when render's pixel loop has finished, each of the w * h cells
\* image[y][x] has been assigned, once, the average of its 2 x 2 sub-samples
\* after enhanceContrast and clamp; every channel of every cell is in [0, 1]
\* whatever colours traceRay returned, and every integer written to the file is
\* in 0..255, one line for each cell.
C5_ImagePopulated ==
    /\ rpc \in {"row", "pixel", "sample", "store", "crashed"} \/ PixelLoopDone =>
           /\ DOMAIN image = 0..(h - 1)
           /\ \A yy \in 0..(h - 1) :
                  /\ DOMAIN image[yy] = 0..(w - 1)
                  /\ \A xx \in 0..(w - 1) : InUnitRange(image[yy][xx].color)
    /\ PixelLoopDone =>
           /\ traceCalls = 4 * w * h
           /\ \A yy \in 0..(h - 1), xx \in 0..(w - 1) :
                  /\ image[yy][xx].stores = 1
                  /\ image[yy][xx].color =
                         Clamp(enhanceContrast(CScale(SubSampleSum(xx, yy), 250)))
    /\ \A i \in 2..Len(file) : \A k \in 1..3 : file[i][k] \in 0..255
    /\ rpc = "saved" =>
           /\ Len(file) = 1 + w * h
           /\ file[1] = <<w, h, 255>>

\* a saved 2 x 10 image with a channel clamped from above 1 to 1 (written as
\* 255) and one clamped from below 0 to 0
C5_Witness ==
    /\ rpc = "saved"
    /\ w = 2
    /\ h = 10
    /\ \E yy \in 0..9, xx \in 0..1 :
           /\ SubSampleSum(xx, yy)[1] > 4 * Unit
           /\ image[yy][xx].color[1] = Unit
           /\ file[2 + yy * w + xx][1] = 255
    /\ \E yy \in 0..9, xx \in 0..1 : image[yy][xx].color = Color(0, 0, 0)

----------------------------------------------------------------------------
\* C6: a non-positive mass and non-positive image dimensions are rejected
\* before any ray is marched: with mass <= 0, w <= 0 or h <= 0 traceRay is never
\* called, so that every BlackHole passed to traceRay has
\* 0 < Rs <= diskInner <= diskOuter.
C6_RejectedBeforeMarch ==
    /\ (bh.mass <= 0 \/ w <= 0 \/ h <= 0) => traceCalls = 0
    /\ traceCalls > 0 =>
           /\ 0 < bh.schwarzschildRadius
           /\ bh.schwarzschildRadius <= bh.diskInnerRadius
           /\ bh.diskInnerRadius <= bh.diskOuterRadius

----------------------------------------------------------------------------
\* the BlackHole's constructor has run
Constructed == rpc # "main"

\* C7: for every mass m > 0 a constructed BlackHole has Rs = 2 m,
\* diskInner = 6 m, diskOuter = 20 m and Rs <= diskInner <= diskOuter, and no
\* operation of BlackHole, traceRay or render changes the three radii.
C7_RadiiFromMass ==
    (Constructed /\ bh.mass > 0) =>
        /\ bh.schwarzschildRadius = 2 * bh.mass
        /\ bh.diskInnerRadius = 6 * bh.mass
        /\ bh.diskOuterRadius = 20 * bh.mass
        /\ bh.schwarzschildRadius <= bh.diskInnerRadius
        /\ bh.diskInnerRadius <= bh.diskOuterRadius

C7_RadiiUnwritten ==
    Constructed =>
        /\ bh'.schwarzschildRadius = bh.schwarzschildRadius
        /\ bh'.diskInnerRadius = bh.diskInnerRadius
        /\ bh'.diskOuterRadius = bh.diskOuterRadius

C7_RadiiFixed == []C7_RadiiFromMass /\ [][C7_RadiiUnwritten]_vars

\* a hole of mass 0.5, radii 1, 3 and 10, after a render that marched rays
C7_Witness ==
    /\ rpc = "saved"
    /\ traceCalls > 0
    /\ bh.mass = 500
    /\ bh.schwarzschildRadius = 1000
    /\ bh.diskInnerRadius = 3000
    /\ bh.diskOuterRadius = 10000

----------------------------------------------------------------------------
\* C8 as stated: the step size is 0.4 when d >= 8 Rs, 0.2 when 5 Rs <= d < 8 Rs,
\* 0.1 when 2 Rs <= d < 5 Rs and 0.05 otherwise, also at d = 8 Rs, 5 Rs, 2 Rs.
C8_BandsInclusive ==
    InLoopBody =>
        stepSize = IF distanceToBlackHole >= 8 * bh.schwarzschildRadius THEN 400
                   ELSE IF distanceToBlackHole >= 5 * bh.schwarzschildRadius THEN 200
                   ELSE IF distanceToBlackHole >= 2 * bh.schwarzschildRadius THEN 100
                   ELSE 50

\* C8 amended: in every march step the step size is 0.4 when d > 8 Rs, 0.2 when
\* 5 Rs < d <= 8 Rs, 0.1 when 2 Rs < d <= 5 Rs and 0.05 when d <= 2 Rs, d being
\* the distance of the current position to the hole: at exactly 8 Rs, 5 Rs and
\* 2 Rs the smaller step is taken.
C8_BandsExclusive ==
    InLoopBody =>
        /\ distanceToBlackHole = DistanceTo(currentPosition, bh.position)
           \/ pc = "advance"
        /\ stepSize = IF distanceToBlackHole > 8 * bh.schwarzschildRadius THEN 400
                      ELSE IF distanceToBlackHole > 5 * bh.schwarzschildRadius THEN 200
                      ELSE IF distanceToBlackHole > 2 * bh.schwarzschildRadius THEN 100
                      ELSE 50

C8_Witness ==
    /\ pc = "horizon"
    /\ distanceToBlackHole = 8 * bh.schwarzschildRadius
    /\ stepSize = 200

----------------------------------------------------------------------------
IsLensingCall == call.fn = "applyGravitationalLensing"

\* dist = |rayPos - pos| of the call
LensDist == Length(VSub(call.rayPosition, bh.position))

\* C9 as stated: dist < Rs returns rayDir unchanged; Rs <= dist < 1.5 Rs applies
\* the strong deflection; 1.5 Rs <= dist < 10 Rs the moderate deflection;
\* dist >= 10 Rs, also dist = 10 Rs exactly, returns rayDir unchanged.
C9_RegimesAsListed ==
    IsLensingCall =>
        /\ LensDist < bh.schwarzschildRadius =>
               ret.value.regime = "horizon" /\ ret.value.dir = call.rayDirection
        /\ (bh.schwarzschildRadius <= LensDist /\ 2 * LensDist < 3 * bh.schwarzschildRadius) =>
               ret.value.regime = "strong"
        /\ (3 * bh.schwarzschildRadius <= 2 * LensDist /\ LensDist < 10 * bh.schwarzschildRadius) =>
               ret.value.regime = "moderate"
        /\ LensDist >= 10 * bh.schwarzschildRadius =>
               ret.value.regime = "distant" /\ ret.value.dir = call.rayDirection

\* C9 amended: dist < Rs returns rayDir unchanged; Rs <= dist < 1.5 Rs applies
\* the strong deflection; 1.5 Rs <= dist <= 10 Rs, dist = 10 Rs included, applies
\* the moderate deflection; only dist > 10 Rs returns rayDir unchanged.
C9_RegimesModerateAtTen ==
    IsLensingCall =>
        /\ LensDist < bh.schwarzschildRadius =>
               ret.value.regime = "horizon" /\ ret.value.dir = call.rayDirection
        /\ (bh.schwarzschildRadius <= LensDist /\ 2 * LensDist < 3 * bh.schwarzschildRadius) =>
               ret.value.regime = "strong"
        /\ (3 * bh.schwarzschildRadius <= 2 * LensDist /\ LensDist <= 10 * bh.schwarzschildRadius) =>
               ret.value.regime = "moderate"
        /\ LensDist > 10 * bh.schwarzschildRadius =>
               ret.value.regime = "distant" /\ ret.value.dir = call.rayDirection

\* at exactly 10 Rs the moderate deflection bends the ray
C9_Witness ==
    /\ IsLensingCall
    /\ LensDist = 10 * bh.schwarzschildRadius
    /\ ret.value.regime = "moderate"
    /\ ret.value.dir # call.rayDirection

----------------------------------------------------------------------------
\* C10: the direction is updated by applyGravitationalLensing only in march
\* steps with step % 3 = 0, after that step's horizon check and disk test did
\* not end the ray; in a step with step % 3 # 0 the direction stays as it is.
C10_LensingCount ==
    /\ pc \in {"loop", "horizon", "disk", "lens"} => lensCalls = (step + 2) \div 3
    /\ pc = "advance" => lensCalls = step \div 3 + 1

C10_DirectionStep ==
    /\ (direction' # direction \/ lensCalls' # lensCalls) =>
           /\ pc = "lens"
           /\ step % 3 = 0
           /\ lensCalls' = lensCalls + 1
           /\ diskCalls = iterations
           /\ 100 * distanceToBlackHole >= 101 * bh.schwarzschildRadius
           /\ result = NoResult
    /\ (pc = "lens" /\ step % 3 # 0) =>
           /\ direction' = direction
           /\ currentPosition' = currentPosition
           /\ pc' = "advance"
    /\ (pc = "lens" /\ step % 3 = 0) => lensCalls' = lensCalls + 1

C10_LensingEveryThirdStep == []C10_LensingCount /\ [][C10_DirectionStep]_vars

C10_Witness ==
    /\ pc = "advance"
    /\ step = 4
    /\ lensCalls = 2
    /\ direction # argDirection

----------------------------------------------------------------------------
IsIntersectsCall == call.fn = "intersectsAccretionDisk"

\* |dir.y| >= 1e-6
NotParallel == Abs(call.rayDirection[2]) * (1000000 \div DirUnit) >= 1

\* t = (pos.y - origin.y) / dir.y, for a ray that is not parallel
PlaneTime == RDiv((bh.position[2] - call.rayOrigin[2]) * DirUnit, call.rayDirection[2])

\* the radial distance of origin + dir * t from the hole's vertical axis
PlaneRadius ==
    LET point == VAdd(call.rayOrigin, VScale(call.rayDirection, PlaneTime, DirUnit))
    IN  Length(<<point[1] - bh.position[1], 0, point[3] - bh.position[3]>>)

TimeInRange == NotParallel /\ PlaneTime >= 0 /\ PlaneTime <= 2000

\* C11: intersectsAccretionDisk returns true exactly when |dir.y| >= 1e-6, the
\* plane parameter t is in [0, 2.0] and the radial distance of origin + dir * t
\* from the hole's axis is in [diskInner, diskOuter], both ends included; when
\* the ray is near-parallel or t is out of range the out-parameter is unchanged.
C11_HitExactlyInDisk ==
    IsIntersectsCall =>
        /\ ret.value.hit = (/\ TimeInRange
                            /\ PlaneRadius >= bh.diskInnerRadius
                            /\ PlaneRadius <= bh.diskOuterRadius)
        /\ ~TimeInRange => ret.value.point = call.intersectionPoint

\* a hit at t = 2.0 on the outer rim, both at the end of their ranges
C11_Witness ==
    /\ IsIntersectsCall
    /\ TimeInRange
    /\ PlaneTime = 2000
    /\ PlaneRadius = bh.diskOuterRadius
    /\ ret.value.hit
    /\ ret.value.point # call.intersectionPoint

----------------------------------------------------------------------------
\* the step is about to call applyGravitationalLensing(currentPosition, direction)
AboutToLens == pc = "lens" /\ LensingStep(step)

\* the dist that call computes
LensCallDist == Length(VSub(currentPosition, bh.position))

\* C12: in every step the horizon check precedes lensing, so traceRay calls
\* applyGravitationalLensing only with a position at distance >= 1.01 Rs: the
\* branch `dist < Rs` is never taken from traceRay, and in the strong branch
\* dist - Rs is at least 0.01 Rs, so that 1 / (dist - Rs) is finite and at most
\* 1 / (0.01 Rs).
C12_LensedOutsideHorizon ==
    /\ lensRegime # "horizon"
    /\ AboutToLens =>
           /\ 100 * LensCallDist >= 101 * bh.schwarzschildRadius
           /\ LensingRegime(bh, LensCallDist) # "horizon"
           /\ LensingRegime(bh, LensCallDist) = "strong" =>
                  /\ LensCallDist - bh.schwarzschildRadius > 0
                  /\ 100 * (LensCallDist - bh.schwarzschildRadius) >= bh.schwarzschildRadius
                  /\ ~applyGravitationalLensing(bh, currentPosition, direction).nan

C12_LensingStep ==
    lensCalls' # lensCalls =>
        /\ AboutToLens
        /\ lensRegime' = LensingRegime(bh, LensCallDist)
        /\ diskCalls = iterations

C12_HorizonBeforeLensing == []C12_LensedOutsideHorizon /\ [][C12_LensingStep]_vars

\* a ray that starts at exactly 1.01 Rs is bent by the strong deflection with the
\* largest factor, 1 / (0.01 Rs)
C12_Witness ==
    /\ pc = "advance"
    /\ step = 0
    /\ lensCalls = 1
    /\ lensRegime = "strong"
    /\ 100 * DistanceTo(currentPosition, bh.position) = 101 * bh.schwarzschildRadius
    /\ direction # argDirection

----------------------------------------------------------------------------
\* C13: for every image size with w >= 1 and h >= 1, heights 1..9 included, the
\* progress check of each row evaluates y % (h / 10) with a non-zero divisor:
\* render does not stop in it, and once the row loop is over all h rows have
\* been visited and the image is written.
C13_ProgressNeverStops ==
    (w >= 1 /\ h >= 1) =>
        /\ (rpc = "row" /\ y < h) => h \div 10 # 0
        /\ rpc # "crashed"
        /\ rpc = "open" => y = h

----------------------------------------------------------------------------
IsDiskColorCall == call.fn = "calculateAccretionDiskColor"

\* the radial distance d of the point from the hole's axis
ColorRadius ==
    Length(<<call.point[1] - bh.position[1], 0, call.point[3] - bh.position[3]>>)

\* C14: for every point whose radial distance from the hole's axis is in
\* [diskInner, diskOuter], calculateAccretionDiskColor computes a clamped
\* temperature Rs / d in [0.1, 1/3] and, after the turbulence, a temperature of
\* at most 0.3834 < 0.4: the base colour is the last bin (0.8, 0.3, 0.1), and
\* the three returned channels are strictly positive.
C14_DiskColourLastBin ==
    (/\ IsDiskColorCall
     /\ ColorRadius >= bh.diskInnerRadius
     /\ ColorRadius <= bh.diskOuterRadius) =>
        /\ ret.value.clamped >= 100
        /\ 3 * ret.value.clamped <= Unit + 3
        /\ 10 * ret.value.temperature <= 3834
        /\ ret.value.temperature < 400
        /\ ret.value.baseColor = Color(800, 300, 100)
        /\ ret.value.finite
        /\ \A i \in 1..3 : ret.value.color[i] > 0

====
